---- MODULE Spec2Model ----
\* Online quota scrubber (fs/xfs/scrub/quota.c): setup, data fork range check,
\* per-dquot iteration with the ILOCK / dquot lock hand-off, and the per-dquot
\* limit, usage and timer rules.
EXTENDS Integers, Sequences, FiniteSets, TLC

\* ---------------------------------------------------------------- bounds
\* Highest dquot id the iterator may yield.
MaxId == 2
\* Most dquots the iterator yields in one scrub.
MaxRecords == 3
\* Largest value of a limit or a usage count.
MaxLimit == 2
\* Most extents in the quota file's data fork.
MaxExtents == 2

\* ------------------------------------------------- filesystem geometry
\* mp->m_quotainfo->qi_dqperchunk: dquots per quota file block.
qi_dqperchunk == 2
\* Highest dquot id (XFS_DQ_ID_MAX), scaled to the model's id range.
XFS_DQ_ID_MAX == MaxId
\* mp->m_sb.sb_dblocks, mp->m_sb.sb_rblocks, M_IGEO(mp)->maxicount: one below
\* the largest modelled value, so that limits and counts can exceed them.
sb_dblocks == MaxLimit - 1
sb_rblocks == MaxLimit - 1
maxicount == MaxLimit - 1
\* Values percpu_counter_sum(&mp->m_icount) can return.
ICountVals == {maxicount - 1, maxicount}

\* Block numbers: [0, sb_dblocks) are filesystem blocks, then block numbers
\* beyond the end of the filesystem, then the two reserved start blocks.
DELAYSTARTBLOCK == sb_dblocks + 3
HOLESTARTBLOCK == sb_dblocks + 2
FsbVals == 0..DELAYSTARTBLOCK

\* File offsets of quota file blocks the model looks at.
MaxOff == (XFS_DQ_ID_MAX \div qi_dqperchunk) + 1
XFS_MAX_FILEOFF == MaxOff + 1

\* ------------------------------------------------------------- helpers
\* xfs_verify_fileoff(): the offset is representable in this filesystem.
xfs_verify_fileoff(off) == off <= XFS_MAX_FILEOFF

\* xfs_verify_fsbno(): the block number points inside the filesystem.
xfs_verify_fsbno(fsb) == fsb >= 0 /\ fsb < sb_dblocks

\* XFS_FSB_TO_DADDR(): filesystem block to 512-byte disk address
\* (4096-byte blocks: eight basic blocks per filesystem block).
XFS_FSB_TO_DADDR(fsb) == fsb * 8

\* xfs_bmap_is_written_extent(): a real extent (not a hole, not delalloc,
\* not empty) whose state is not unwritten.
xfs_bmap_is_written_extent(ir) ==
    /\ ir.br_blockcount > 0
    /\ ir.br_startblock # HOLESTARTBLOCK
    /\ ir.br_startblock # DELAYSTARTBLOCK
    /\ ir.br_state # "UNWRITTEN"

\* xchk_fblock_process_error(): FALSE when the operation failed; the errors
\* modelled here (-EIO) are handed back unchanged.
xchk_fblock_process_error(err) == err = "0"

\* xchk_quota_to_dqtype(): scrub type code to dquot type, 0 if none.
xchk_quota_to_dqtype(type) ==
    CASE type = "UQUOTA" -> "USER"
      [] type = "GQUOTA" -> "GROUP"
      [] type = "PQUOTA" -> "PROJ"
      [] OTHER -> "0"

\* A finding handed to the scrub framework: xchk_fblock_set_corrupt() or
\* xchk_fblock_set_warning() for the data fork at `off`, called from `line`.
set_corrupt(off, line) == [kind |-> "corrupt", off |-> off, line |-> line]
set_warning(off, line) == [kind |-> "warning", off |-> off, line |-> line]

If(c, f) == IF c THEN <<f>> ELSE <<>>

HasKind(finds, k) == \E i \in 1..Len(finds) : finds[i].kind = k
AtLine(finds, l) == \E i \in 1..Len(finds) : finds[i].line = l

\* xchk_ilock(), xchk_iunlock(): take or drop inode locks and keep
\* sc->ilock_flags in step.
xchk_ilock(flags, mode) == flags \cup mode
xchk_iunlock(flags, mode) == flags \ mode

\* xchk_should_terminate(): the cooperative termination check.  It tells
\* the caller to stop when a fatal signal is pending; cancellation is no
\* error, so the caller's error variable is left as it is.
xchk_should_terminate(sig, err) == [stop |-> sig, error |-> err]

\* -------------------------------------------------------------- inputs
\* One accounting domain of a dquot (struct xfs_dquot_res).
Res == [count : 0..MaxLimit, softlimit : 0..MaxLimit,
        hardlimit : 0..MaxLimit, timer : 0..1]
ZeroRes == [count |-> 0, softlimit |-> 0, hardlimit |-> 0, timer |-> 0]
Domains == {"blk", "ino", "rtb"}
NoUsage == [blk |-> ZeroRes, ino |-> ZeroRes, rtb |-> ZeroRes]

\* Usage of the dquots the scrub meets: any values in one domain, nothing in
\* the other two.
ScanUsage ==
    {[NoUsage EXCEPT ![d] = r] : d \in Domains, r \in Res}

\* Usage of a dquot that is charged in two domains, with no timer running.
PairUsage ==
    {[NoUsage EXCEPT ![a] = ra, ![b] = rb] :
        a \in Domains, b \in Domains,
        ra \in {r \in Res : r.timer = 0}, rb \in {r \in Res : r.timer = 0}}

\* The in-core dquot fields the scrubber reads besides the usage.
Dquots ==
    [q_id : 0..MaxId,
     q_fileoffset : 0..MaxOff,
     q_blkno : {XFS_FSB_TO_DADDR(0), XFS_FSB_TO_DADDR(sb_dblocks)}]
NoDq == [q_id |-> -1, q_fileoffset |-> -1, q_blkno |-> -1]

\* Dquots the iterator yields: q_fileoffset is the block holding the id, or
\* the next one when the in-core dquot disagrees with its id.
IterDquots ==
    {d \in Dquots : d.q_fileoffset \in
        {d.q_id \div qi_dqperchunk, (d.q_id \div qi_dqperchunk) + 1}}

\* A data fork mapping (struct xfs_bmbt_irec).
ZeroIrec == [br_startoff |-> 0, br_blockcount |-> 0,
             br_startblock |-> 0, br_state |-> "NORM"]
\* Extents of the quota file's data fork, as the in-core extent list holds them.
ForkExtents ==
    [br_startoff : 0..MaxOff, br_blockcount : 1..2,
     br_startblock : {0, DELAYSTARTBLOCK}, br_state : {"NORM", "UNWRITTEN"}]

\* Outcomes of xfs_bmapi_read(ip, offset, 1, &irec, &nmaps, 0).
NoLookup == [error |-> "none", nmaps |-> -1, irec |-> ZeroIrec]
Lookups(off) ==
    {[error |-> "-EIO", nmaps |-> 1, irec |-> ZeroIrec],
     [error |-> "0", nmaps |-> 0, irec |-> ZeroIrec]}
    \cup
    {[error |-> "0", nmaps |-> 1,
      irec |-> [br_startoff |-> off, br_blockcount |-> 1,
                br_startblock |-> b, br_state |-> st]] :
        b \in FsbVals, st \in {"NORM", "UNWRITTEN"}}

\* ------------------------------------------------------ pure functions
\* MappingFinds without the written-extent check.
MappingFinds_nowritten(d, offset, ir) ==
    If(~xfs_verify_fsbno(ir.br_startblock), set_corrupt(offset, 112))
    \o If(XFS_FSB_TO_DADDR(ir.br_startblock) # d.q_blkno,
          set_corrupt(offset, 114))

\* The checks xchk_quota_item_bmap() makes of the one mapping it found.
MappingFinds(d, offset, ir) ==
    If(~xfs_verify_fsbno(ir.br_startblock), set_corrupt(offset, 112))
    \o If(XFS_FSB_TO_DADDR(ir.br_startblock) # d.q_blkno,
          set_corrupt(offset, 114))
    \o If(~xfs_bmap_is_written_extent(ir), set_corrupt(offset, 116))

\* xchk_quota_item_bmap() going on to the lookup after an offset mismatch.
xchk_quota_item_bmap_noreturn(d, offset, lk) ==
    LET early == If(~xfs_verify_fileoff(offset), set_corrupt(offset, 93))
                 \o If(d.q_fileoffset # offset, set_corrupt(offset, 98))
    IN
    IF lk.error # "0"
    THEN [error |-> lk.error, lk |-> lk, finds |-> early]
    ELSE IF lk.nmaps # 1
    THEN [error |-> "0", lk |-> lk,
          finds |-> early \o <<set_corrupt(offset, 107)>>]
    ELSE [error |-> "0", lk |-> lk,
          finds |-> early \o MappingFinds(d, offset, lk.irec)]

\* xchk_quota_item_bmap reporting a failed lookup as corruption and
\* returning 0.
xchk_quota_item_bmap_eaterror(d, offset, lk) ==
    IF ~xfs_verify_fileoff(offset)
    THEN [error |-> "0", lk |-> NoLookup, finds |-> <<set_corrupt(offset, 93)>>]
    ELSE IF d.q_fileoffset # offset
    THEN [error |-> "0", lk |-> NoLookup, finds |-> <<set_corrupt(offset, 98)>>]
    ELSE IF lk.error # "0"
    THEN [error |-> "0", lk |-> lk, finds |-> <<set_corrupt(offset, 107)>>]
    ELSE IF lk.nmaps # 1
    THEN [error |-> "0", lk |-> lk, finds |-> <<set_corrupt(offset, 107)>>]
    ELSE [error |-> "0", lk |-> lk, finds |-> MappingFinds(d, offset, lk.irec)]

\* xchk_quota_item_bmap(): is there a written block backing this dquot?
\* `lk` is what xfs_bmapi_read() returns if it is called.
xchk_quota_item_bmap(d, offset, lk) ==
    IF ~xfs_verify_fileoff(offset)
    THEN [error |-> "0", lk |-> NoLookup, finds |-> <<set_corrupt(offset, 93)>>]
    ELSE IF d.q_fileoffset # offset
    THEN [error |-> "0", lk |-> NoLookup, finds |-> <<set_corrupt(offset, 98)>>]
    ELSE IF lk.error # "0"
    THEN [error |-> lk.error, lk |-> lk, finds |-> <<>>]
    ELSE IF lk.nmaps # 1
    THEN [error |-> "0", lk |-> lk, finds |-> <<set_corrupt(offset, 107)>>]
    ELSE [error |-> "0", lk |-> lk, finds |-> MappingFinds(d, offset, lk.irec)]

\* xchk_quota_item_timer without the test for a timer that runs while no
\* limit is exceeded.
xchk_quota_item_timer_overonly(offset, r, line) ==
    IF (r.softlimit # 0 /\ r.count > r.softlimit)
       \/ (r.hardlimit # 0 /\ r.count > r.hardlimit)
    THEN If(r.timer = 0, set_corrupt(offset, line))
    ELSE <<>>

\* xchk_quota_item_timer(): complain if a quota timer is incorrectly set.
xchk_quota_item_timer(offset, r, line) ==
    IF (r.softlimit # 0 /\ r.count > r.softlimit)
       \/ (r.hardlimit # 0 /\ r.count > r.hardlimit)
    THEN If(r.timer = 0, set_corrupt(offset, line))
    ELSE If(r.timer # 0, set_corrupt(offset, line))

\* The ordering test of xchk_quota_item().
OrderViolated(id, last) == id # 0 /\ id <= last

\* The limit ordering test of xchk_quota_item().
SoftOverHard(r) == r.softlimit > r.hardlimit

\* Hard limit against the filesystem's size, then soft against hard limit.
LimitFinds(offset, r, cap, wline, cline) ==
    If(r.hardlimit > cap, set_warning(offset, wline))
    \o If(SoftOverHard(r), set_corrupt(offset, cline))

\* CountFinds with no allowance for reflink filesystems.
CountFinds_noreflink(offset, u, fs_icount, reflink) ==
    If(sb_dblocks < u.blk.count, set_corrupt(offset, 220))
    \o If(sb_rblocks < u.rtb.count, set_corrupt(offset, 223))
    \o If(u.ino.count > fs_icount, set_corrupt(offset, 227))

\* Usage against the physical limits; reflink filesystems may exceed them.
CountFinds(offset, u, fs_icount, reflink) ==
    (IF reflink
     THEN If(sb_dblocks < u.blk.count, set_warning(offset, 213))
          \o If(sb_rblocks < u.rtb.count, set_warning(offset, 216))
     ELSE If(sb_dblocks < u.blk.count, set_corrupt(offset, 220))
          \o If(sb_rblocks < u.rtb.count, set_corrupt(offset, 223)))
    \o If(u.ino.count > fs_icount, set_corrupt(offset, 227))

\* Usage over a hard limit.
OverHard(offset, r, line) ==
    If(r.hardlimit # 0 /\ r.count > r.hardlimit, set_warning(offset, line))

\* ItemFinds with the over-limit and timer checks made for id 0 as well.
ItemFinds_allids(id, offset, u, fs_icount, reflink) ==
    LimitFinds(offset, u.blk, sb_dblocks, 189, 191)
    \o LimitFinds(offset, u.ino, maxicount, 194, 196)
    \o LimitFinds(offset, u.rtb, sb_rblocks, 199, 201)
    \o CountFinds(offset, u, fs_icount, reflink)
    \o OverHard(offset, u.blk, 239)
    \o OverHard(offset, u.ino, 243)
    \o OverHard(offset, u.rtb, 247)
    \o xchk_quota_item_timer(offset, u.blk, 249)
    \o xchk_quota_item_timer(offset, u.ino, 250)
    \o xchk_quota_item_timer(offset, u.rtb, 251)

\* The findings of `fs` up to and including the first corruption.
UpToCorrupt(fs) ==
    IF HasKind(fs, "corrupt")
    THEN SubSeq(fs, 1, CHOOSE i \in 1..Len(fs) :
                          /\ fs[i].kind = "corrupt"
                          /\ \A j \in 1..(i - 1) : fs[j].kind # "corrupt")
    ELSE fs

\* ItemFinds leaving at the first corruption it reports.
ItemFinds_stopcorrupt(id, offset, u, fs_icount, reflink) ==
    UpToCorrupt(
        LimitFinds(offset, u.blk, sb_dblocks, 189, 191)
        \o LimitFinds(offset, u.ino, maxicount, 194, 196)
        \o LimitFinds(offset, u.rtb, sb_rblocks, 199, 201)
        \o CountFinds(offset, u, fs_icount, reflink)
        \o (IF id = 0 THEN <<>>
            ELSE OverHard(offset, u.blk, 239)
                 \o OverHard(offset, u.ino, 243)
                 \o OverHard(offset, u.rtb, 247)
                 \o xchk_quota_item_timer(offset, u.blk, 249)
                 \o xchk_quota_item_timer(offset, u.ino, 250)
                 \o xchk_quota_item_timer(offset, u.rtb, 251)))

\* The findings of xchk_quota_item() from the limits check to the out label.
ItemFinds(id, offset, u, fs_icount, reflink) ==
    LimitFinds(offset, u.blk, sb_dblocks, 189, 191)
    \o LimitFinds(offset, u.ino, maxicount, 194, 196)
    \o LimitFinds(offset, u.rtb, sb_rblocks, 199, 201)
    \o CountFinds(offset, u, fs_icount, reflink)
    \o (IF id = 0 THEN <<>>
        ELSE OverHard(offset, u.blk, 239)
             \o OverHard(offset, u.ino, 243)
             \o OverHard(offset, u.rtb, 247)
             \o xchk_quota_item_timer(offset, u.blk, 249)
             \o xchk_quota_item_timer(offset, u.ino, 250)
             \o xchk_quota_item_timer(offset, u.rtb, 251))

\* --------------------------------------------------------------- state
VARIABLES
    pc,           \* where the scrub thread is
    ret,          \* what the scrub returned to its caller ("running" until then)
    error,        \* the error variable of the function being run
    sm_type,      \* sc->sm->sm_type
    accounting,   \* dquot types with quota accounting switched on
    has_reflink,  \* xfs_has_reflink(mp)
    m_icount,     \* mp->m_icount, changed by other threads
    ip,           \* sc->ip: the inode installed for scrubbing
    ilock_flags,  \* sc->ilock_flags: inode locks the scrubber holds
    corrupt,      \* XFS_SCRUB_OFLAG_CORRUPT in sc->sm->sm_flags
    warning,      \* XFS_SCRUB_OFLAG_WARNING in sc->sm->sm_flags
    terminate,    \* a fatal signal is pending for the scrub thread
    irec,         \* the data fork cursor's current extent
    nextents,     \* extents the data fork loop has found in range
    cursor,       \* the dquot cursor has been initialised
    pulled,       \* dquots the iterator has yielded
    nput,         \* dquots released with xfs_qm_dqput()
    last_id,      \* sqi.last_id
    dq,           \* the dquot being checked
    dqlocked,     \* the scrubber holds dq's lock
    lk,           \* what xfs_bmapi_read() returned, until its mapping is checked
    usage,        \* the limits, counts and timers read from dq
    finds,        \* findings reported by the latest checking step
    seen,         \* highest nonzero id of the dquots released so far
    stopped,      \* a termination poll has seen the fatal signal
    fs_icount     \* fs_icount of the xchk_quota_item() call that last set it

vars == <<pc, ret, error, sm_type, accounting, has_reflink, m_icount, ip,
          ilock_flags, corrupt, warning, terminate, irec, nextents, cursor,
          pulled, nput, last_id, dq, dqlocked, lk, usage, finds, seen,
          stopped, fs_icount>>

ScrubTypes == {"UQUOTA", "GQUOTA", "PQUOTA", "PROBE"}
DqTypes == {"USER", "GROUP", "PROJ"}

\* sc->sm->sm_flags after the findings `fs` have been reported.
Flagged(flag, fs, kind) == flag \/ HasKind(fs, kind)

Start(types, accts) ==
    /\ pc = "setup"
    /\ ret = "running"
    /\ error = "0"
    /\ sm_type \in types
    /\ accounting \in accts
    /\ has_reflink \in BOOLEAN
    /\ m_icount \in ICountVals
    /\ ip = "none"
    /\ ilock_flags = {}
    /\ corrupt = FALSE
    /\ warning = FALSE
    /\ terminate = FALSE
    /\ irec = ZeroIrec
    /\ nextents = 0
    /\ cursor = FALSE
    /\ pulled = 0
    /\ nput = 0
    /\ last_id = 0
    /\ dq = NoDq
    /\ dqlocked = FALSE
    /\ lk = NoLookup
    /\ usage = NoUsage
    /\ finds = <<>>
    /\ seen = 0
    /\ stopped = FALSE
    /\ fs_icount = -1

\* The scrub of the user quota file, or of a type that is no quota type, on a
\* filesystem with no, user or group quota accounting.
Init == Start({"UQUOTA", "PROBE"}, {{}, {"USER"}, {"GROUP"}})

\* ------------------------------------------------------------- actions
\* SetupResult without the test that the type's quota accounting is on.
SetupResult_anytype(type, accts, fs_err, ino_err) ==
    IF accts = {} THEN "-ENOENT"
    ELSE IF xchk_quota_to_dqtype(type) = "0" THEN "-EINVAL"
    ELSE IF fs_err # "0" THEN fs_err
    ELSE ino_err

\* xchk_setup_quota(): check that the quota type is on, install the quota
\* inode and take ILOCK_EXCL.  `fs_err` and `ino_err` are what
\* xchk_setup_fs() and xchk_install_live_inode() return.
SetupResult(type, accts, fs_err, ino_err) ==
    IF accts = {} THEN "-ENOENT"
    ELSE IF xchk_quota_to_dqtype(type) = "0" THEN "-EINVAL"
    ELSE IF xchk_quota_to_dqtype(type) \notin accts THEN "-ENOENT"
    ELSE IF fs_err # "0" THEN fs_err
    ELSE ino_err

Setup ==
    /\ pc = "setup"
    /\ \E fs_err \in {"0", "-EIO"}, ino_err \in {"0", "-EIO"} :
        LET e == SetupResult(sm_type, accounting, fs_err, ino_err) IN
        /\ error' = e
        /\ ip' = IF e = "0" THEN "quota_inode" ELSE "none"
        /\ ilock_flags' = IF e = "0" THEN {"ILOCK_EXCL"} ELSE {}
        /\ pc' = IF e = "0" THEN "quota" ELSE "done"
        /\ ret' = IF e = "0" THEN "running" ELSE e
    /\ UNCHANGED <<sm_type, accounting, has_reflink, m_icount, corrupt,
                   warning, terminate, irec, nextents, cursor, pulled, nput,
                   last_id, dq, dqlocked, lk, usage, finds,
                   seen, stopped,
                   fs_icount>>

\* xchk_quota() up to the fork scrubber's verdict in xchk_quota_data_fork():
\* xchk_metadata_inode_forks() fails, flags corruption, or finds nothing.
InvokeForkScrubber ==
    /\ pc = "quota"
    /\ \E out \in {"clean", "corrupt", "-EIO"} :
        /\ error' = IF out = "-EIO" THEN "-EIO" ELSE "0"
        /\ corrupt' = (corrupt \/ out = "corrupt")
        /\ pc' = IF out = "clean" THEN "fork_loop" ELSE "fork_ret"
    /\ UNCHANGED <<ret, sm_type, accounting, has_reflink, m_icount, ip,
                   ilock_flags, warning, terminate, irec, nextents, cursor,
                   pulled, nput, last_id, dq, dqlocked, lk, usage, finds,
                   seen, stopped,
                   fs_icount>>

\* BadForkExtent looking at the first block of the extent only.
BadForkExtent_startonly(e, max_dqid_off) ==
    \/ ~xfs_bmap_is_written_extent(e)
    \/ e.br_startoff > max_dqid_off

\* The range test of xchk_quota_data_fork(): an extent that is not written,
\* or that maps blocks above the highest quota id.
BadForkExtent(e, max_dqid_off) ==
    \/ ~xfs_bmap_is_written_extent(e)
    \/ e.br_startoff > max_dqid_off
    \/ e.br_startoff + e.br_blockcount - 1 > max_dqid_off

\* One pass of the for_each_xfs_iext() loop of xchk_quota_data_fork(): the
\* next extent of the (sorted) extent list, the termination poll, the test.
DataForkExtent ==
    /\ pc = "fork_loop"
    /\ nextents < MaxExtents
    /\ \E e \in ForkExtents :
        /\ e.br_startoff >= irec.br_startoff + irec.br_blockcount
        /\ LET t == xchk_should_terminate(terminate, error)
               bad == BadForkExtent(e, XFS_DQ_ID_MAX \div qi_dqperchunk)
               fs == IF ~t.stop /\ bad
                     THEN <<set_corrupt(e.br_startoff, 291)>> ELSE <<>>
           IN
           /\ error' = t.error
           /\ stopped' = t.stop
           /\ finds' = fs
           /\ corrupt' = Flagged(corrupt, fs, "corrupt")
           /\ irec' = e
           /\ nextents' = IF t.stop \/ bad THEN nextents ELSE nextents + 1
           /\ pc' = IF t.stop \/ bad THEN "fork_ret" ELSE "fork_loop"
    /\ UNCHANGED <<ret, sm_type, accounting, has_reflink, m_icount, ip,
                   ilock_flags, warning, terminate, cursor, pulled, nput,
                   last_id, dq, dqlocked, lk, usage,
                   seen,
                   fs_icount>>

\* The extent list is exhausted: xchk_quota_data_fork() returns.
DataForkEnd ==
    /\ pc = "fork_loop"
    /\ irec' = ZeroIrec
    /\ nextents' = 0
    /\ pc' = "fork_ret"
    /\ UNCHANGED <<ret, error, sm_type, accounting, has_reflink, m_icount, ip,
                   ilock_flags, corrupt, warning, terminate, cursor, pulled,
                   nput, last_id, dq, dqlocked, lk, usage, finds,
                   seen, stopped,
                   fs_icount>>

\* DropForkLocks with the xchk_iunlock() call left out.
DropForkLocks_none(flags) == flags

\* The inode locks xchk_quota() holds once the data fork has been checked:
\* xchk_iunlock(sc, sc->ilock_flags) drops all of them.
DropForkLocks(flags) == xchk_iunlock(flags, flags)

\* ForkStops without the test of the corruption flag.
ForkStops_erronly(err, flag) == err # "0"

\* Whether xchk_quota() leaves once the data fork has been checked.
ForkStops(err, flag) == err # "0" \/ flag

\* xchk_quota() after xchk_quota_data_fork(): leave on an error or on
\* corruption, else drop ILOCK_EXCL and initialise the dquot cursor.
AfterDataFork ==
    /\ pc = "fork_ret"
    /\ IF ForkStops(error, corrupt)
       THEN /\ pc' = "done"
            /\ ret' = error
            /\ UNCHANGED <<ilock_flags, cursor>>
       ELSE /\ pc' = "iter"
            /\ ilock_flags' = DropForkLocks(ilock_flags)
            /\ cursor' = TRUE
            /\ UNCHANGED ret
    /\ UNCHANGED <<error, sm_type, accounting, has_reflink, m_icount, ip,
                   corrupt, warning, terminate, irec, nextents, pulled, nput,
                   last_id, dq, dqlocked, lk, usage, finds,
                   seen, stopped,
                   fs_icount>>

\* xchk_dquot_iter(): the next dquot, locked (1), the end (0), or an error.
DquotIter ==
    /\ pc = "iter"
    /\ \/ /\ pulled < MaxRecords
          /\ \E d \in IterDquots :
              /\ dq' = d
              /\ dqlocked' = TRUE
              /\ error' = "1"
              /\ pulled' = pulled + 1
              /\ pc' = "item"
       \/ /\ \E e \in {"0", "-EIO"} : error' = e
          /\ pc' = "post"
          /\ UNCHANGED <<dq, dqlocked, pulled>>
    /\ UNCHANGED <<ret, sm_type, accounting, has_reflink, m_icount, ip,
                   ilock_flags, corrupt, warning, terminate, irec, nextents,
                   cursor, nput, last_id, lk, usage, finds,
                   seen, stopped,
                   fs_icount>>

\* ItemPoll going on to check the dquot whatever the poll says.
ItemPoll_ignore ==
    /\ pc = "item"
    /\ LET t == xchk_should_terminate(terminate, "0") IN
        /\ error' = t.error
        /\ stopped' = t.stop
    /\ pc' = "item_dqunlock"
    /\ UNCHANGED <<ret, sm_type, accounting, has_reflink, m_icount, ip,
                   ilock_flags, corrupt, warning, terminate, irec, nextents,
                   cursor, pulled, nput, last_id, dq, dqlocked, lk, usage,
                   finds, seen, fs_icount>>

\* xchk_quota_item(), entry: the termination poll.
ItemPoll ==
    /\ pc = "item"
    /\ LET t == xchk_should_terminate(terminate, "0") IN
        /\ error' = t.error
        /\ stopped' = t.stop
        /\ pc' = IF t.stop THEN "dqput" ELSE "item_dqunlock"
    /\ UNCHANGED <<ret, sm_type, accounting, has_reflink, m_icount, ip,
                   ilock_flags, corrupt, warning, terminate, irec, nextents,
                   cursor, pulled, nput, last_id, dq, dqlocked, lk, usage,
                   finds,
                   seen,
                   fs_icount>>

\* ItemDqUnlock with the xfs_dqunlock() call left out.
ItemDqUnlock_keep ==
    /\ pc = "item_dqunlock"
    /\ pc' = "item_ilock"
    /\ UNCHANGED <<ret, error, sm_type, accounting, has_reflink, m_icount, ip,
                   ilock_flags, corrupt, warning, terminate, irec, nextents,
                   cursor, pulled, nput, last_id, dq, dqlocked, lk, usage,
                   finds, seen, stopped,
                   fs_icount>>

\* xfs_dqunlock(dq): drop the dquot lock the iterator handed over.
ItemDqUnlock ==
    /\ pc = "item_dqunlock"
    /\ dqlocked' = FALSE
    /\ pc' = "item_ilock"
    /\ UNCHANGED <<ret, error, sm_type, accounting, has_reflink, m_icount, ip,
                   ilock_flags, corrupt, warning, terminate, irec, nextents,
                   cursor, pulled, nput, last_id, dq, lk, usage, finds,
                   seen, stopped,
                   fs_icount>>

\* xchk_ilock(sc, XFS_ILOCK_SHARED).
ItemIlock ==
    /\ pc = "item_ilock"
    /\ ilock_flags' = xchk_ilock(ilock_flags, {"ILOCK_SHARED"})
    /\ pc' = "item_dqlock"
    /\ UNCHANGED <<ret, error, sm_type, accounting, has_reflink, m_icount, ip,
                   corrupt, warning, terminate, irec, nextents, cursor, pulled,
                   nput, last_id, dq, dqlocked, lk, usage, finds,
                   seen, stopped,
                   fs_icount>>

\* ItemDqLock with the dquot left unlocked.
ItemDqLock_skip ==
    /\ pc = "item_dqlock"
    /\ pc' = "item_order"
    /\ UNCHANGED <<ret, error, sm_type, accounting, has_reflink, m_icount, ip,
                   ilock_flags, corrupt, warning, terminate, irec, nextents,
                   cursor, pulled, nput, last_id, dq, dqlocked, lk, usage,
                   finds, seen, stopped, fs_icount>>

\* xfs_dqlock(dq): take the dquot lock again, now under the ILOCK.
ItemDqLock ==
    /\ pc = "item_dqlock"
    /\ dqlocked' = TRUE
    /\ pc' = "item_order"
    /\ UNCHANGED <<ret, error, sm_type, accounting, has_reflink, m_icount, ip,
                   ilock_flags, corrupt, warning, terminate, irec, nextents,
                   cursor, pulled, nput, last_id, dq, lk, usage, finds,
                   seen, stopped,
                   fs_icount>>

\* The id ordering check, and sqi->last_id = dq->q_id.
ItemOrder ==
    /\ pc = "item_order"
    /\ LET offset == dq.q_id \div qi_dqperchunk
           fs == If(OrderViolated(dq.q_id, last_id), set_corrupt(offset, 171))
       IN
        /\ finds' = fs
        /\ corrupt' = Flagged(corrupt, fs, "corrupt")
    /\ last_id' = dq.q_id
    /\ pc' = "item_bmap"
    /\ UNCHANGED <<ret, error, sm_type, accounting, has_reflink, m_icount, ip,
                   ilock_flags, warning, terminate, irec, nextents, cursor,
                   pulled, nput, dq, dqlocked, lk, usage,
                   seen, stopped,
                   fs_icount>>

\* error = xchk_quota_item_bmap(sc, dq, offset).
ItemBmap ==
    /\ pc = "item_bmap"
    /\ LET offset == dq.q_id \div qi_dqperchunk IN
       \E l \in Lookups(offset) :
        LET r == xchk_quota_item_bmap(dq, offset, l) IN
        /\ error' = r.error
        /\ lk' = r.lk
        /\ finds' = r.finds
        /\ corrupt' = Flagged(corrupt, r.finds, "corrupt")
    /\ pc' = "item_iunlock"
    /\ UNCHANGED <<ret, sm_type, accounting, has_reflink, m_icount, ip,
                   ilock_flags, warning, terminate, irec, nextents, cursor,
                   pulled, nput, last_id, dq, dqlocked, usage,
                   seen, stopped,
                   fs_icount>>

\* DropMapLock with the unlock skipped when the lookup failed.
DropMapLock_onok(flags, err) ==
    IF err = "0" THEN xchk_iunlock(flags, {"ILOCK_SHARED"}) ELSE flags

\* The inode locks held once the mapping has been checked.
DropMapLock(flags, err) == xchk_iunlock(flags, {"ILOCK_SHARED"})

\* xchk_iunlock(sc, XFS_ILOCK_SHARED), then leave if the lookup failed.
ItemIunlock ==
    /\ pc = "item_iunlock"
    /\ ilock_flags' = DropMapLock(ilock_flags, error)
    /\ pc' = IF xchk_fblock_process_error(error) THEN "item_rules" ELSE "dqput"
    /\ lk' = IF xchk_fblock_process_error(error) THEN NoLookup ELSE lk
    /\ finds' = <<>>
    /\ UNCHANGED <<ret, error, sm_type, accounting, has_reflink, m_icount, ip,
                   corrupt, warning, terminate, irec, nextents, cursor, pulled,
                   nput, last_id, dq, dqlocked, usage,
                   seen, stopped,
                   fs_icount>>

\* ItemReturn cancelling the scan after every dquot that was checked.
ItemReturn_always(flag) == "-ECANCELED"

\* What xchk_quota_item() returns at its out label.
ItemReturn(flag) == IF flag THEN "-ECANCELED" ELSE "0"

\* SampleIcount keeping the count read for the first dquot of the scan.
SampleIcount_once(live, last) == IF last = -1 THEN live ELSE last

\* fs_icount = percpu_counter_sum(&mp->m_icount): the live count, read anew
\* in every call of xchk_quota_item(); `last` is what the call before read.
SampleIcount(live, last) == live

\* The limit, usage and timer checks of xchk_quota_item() on what the dquot
\* holds by now, and its return value.
ItemRulesOn(U) ==
    /\ pc = "item_rules"
    /\ \E u \in U :
        LET offset == dq.q_id \div qi_dqperchunk
            ic == SampleIcount(m_icount, fs_icount)
            fs == ItemFinds(dq.q_id, offset, u, ic, has_reflink)
        IN
        /\ fs_icount' = ic
        /\ usage' = u
        /\ finds' = fs
        /\ corrupt' = Flagged(corrupt, fs, "corrupt")
        /\ warning' = Flagged(warning, fs, "warning")
        /\ error' = ItemReturn(Flagged(corrupt, fs, "corrupt"))
    /\ pc' = "dqput"
    /\ UNCHANGED <<ret, sm_type, accounting, has_reflink, m_icount, ip,
                   ilock_flags, terminate, irec, nextents, cursor, pulled,
                   nput, last_id, dq, dqlocked, lk,
                   seen, stopped>>

\* The checks on the dquots of the scan.
ItemRules == ItemRulesOn(ScanUsage)

\* Whether the dquot loop of xchk_quota() stops after this dquot.
LoopBreaks(err) == err # "0"

\* xfs_qm_dqput(dq): the dquot is unlocked and given back, and what was read
\* from it is gone; then break out of the loop on an error.
DqPut ==
    /\ pc = "dqput"
    /\ dq' = NoDq
    /\ dqlocked' = FALSE
    /\ nput' = nput + 1
    /\ pc' = IF LoopBreaks(error) THEN "post" ELSE "iter"
    /\ usage' = NoUsage
    /\ finds' = <<>>
    /\ seen' = IF dq.q_id > seen THEN dq.q_id ELSE seen
    /\ UNCHANGED <<ret, error, sm_type, accounting, has_reflink, m_icount, ip,
                   ilock_flags, corrupt, warning, terminate, irec, nextents,
                   cursor, pulled, last_id, lk,
                   stopped,
                   fs_icount>>

\* QuotaReturn without the -ECANCELED conversion.
QuotaReturn_raw(err) == err

\* What xchk_quota() returns once the loop is over: -ECANCELED only says
\* that a dquot was found corrupt.
QuotaReturn(err) == IF err = "-ECANCELED" THEN "0" ELSE err

\* xchk_quota() after the loop.
Post ==
    /\ pc = "post"
    /\ error' = QuotaReturn(error)
    /\ ret' = QuotaReturn(error)
    /\ pc' = "done"
    /\ UNCHANGED <<sm_type, accounting, has_reflink, m_icount, ip,
                   ilock_flags, corrupt, warning, terminate, irec, nextents,
                   cursor, pulled, nput, last_id, dq, dqlocked, lk, usage,
                   finds,
                   seen, stopped,
                   fs_icount>>

\* A fatal signal is sent to the scrub thread.  The scrub sees it only in
\* its termination polls, so the signal is taken where it can be seen: when
\* the next step is a poll.
FatalSignal ==
    /\ pc \in {"fork_loop", "item"}
    /\ ~terminate
    /\ terminate' = TRUE
    /\ UNCHANGED <<pc, ret, error, sm_type, accounting, has_reflink, m_icount,
                   ip, ilock_flags, corrupt, warning, irec, nextents, cursor,
                   pulled, nput, last_id, dq, dqlocked, lk, usage, finds,
                   seen, stopped,
                   fs_icount>>

\* Another thread allocates or frees an inode.  The scrub reads the count
\* only in the limits check of xchk_quota_item(), so the change is taken
\* where it can be seen: between the mapping check and that read.
IcountChange ==
    /\ pc = "item_rules"
    /\ \E n \in ICountVals \ {m_icount} : m_icount' = n
    /\ UNCHANGED <<pc, ret, error, sm_type, accounting, has_reflink, ip,
                   ilock_flags, corrupt, warning, terminate, irec, nextents,
                   cursor, pulled, nput, last_id, dq, dqlocked, lk, usage,
                   finds,
                   seen, stopped,
                   fs_icount>>

Next ==
    \/ Setup
    \/ InvokeForkScrubber
    \/ DataForkExtent
    \/ DataForkEnd
    \/ AfterDataFork
    \/ DquotIter
    \/ ItemPoll
    \/ ItemDqUnlock
    \/ ItemIlock
    \/ ItemDqLock
    \/ ItemOrder
    \/ ItemBmap
    \/ ItemIunlock
    \/ ItemRules
    \/ DqPut
    \/ Post
    \/ FatalSignal
    \/ IcountChange

Spec == Init /\ [][Next]_vars

\* The check of one dquot, charged in two domains: xchk_quota_item() stands
\* at the ordering check (ILOCK_SHARED and the dquot lock taken) for the
\* second dquot of a user quota scan; the one before it had id `last_id`.
InitItem ==
    /\ pc = "item_order"
    /\ ret = "running"
    /\ error = "0"
    /\ sm_type = "UQUOTA"
    /\ accounting = {"USER"}
    /\ has_reflink \in BOOLEAN
    /\ m_icount = maxicount
    /\ ip = "quota_inode"
    /\ ilock_flags = {"ILOCK_SHARED"}
    /\ corrupt = FALSE
    /\ warning = FALSE
    /\ terminate = FALSE
    /\ irec = ZeroIrec
    /\ nextents = 0
    /\ cursor = TRUE
    /\ pulled = 2
    /\ nput = 1
    /\ last_id \in {0, MaxId}
    /\ dq \in IterDquots
    /\ dqlocked = TRUE
    /\ lk = NoLookup
    /\ usage = NoUsage
    /\ finds = <<>>
    /\ seen = last_id
    /\ stopped = FALSE
    /\ fs_icount = m_icount

NextItem ==
    \/ ItemOrder
    \/ ItemBmap
    \/ ItemIunlock
    \/ ItemRulesOn(PairUsage)
    \/ DqPut
    \/ Post

SpecItem == InitItem /\ [][NextItem]_vars

\* Setup alone, for every scrub type and every set of quota types with
\* accounting switched on.
InitSetup == Start(ScrubTypes, SUBSET DqTypes)

NextSetup == Setup

SpecSetup == InitSetup /\ [][NextSetup]_vars

\* -------------------------------------------------------------- claims
\* Positions of xchk_quota() from the first call of the iterator to the
\* release of the last dquot.
IterPcs ==
    {"iter", "item", "item_dqunlock", "item_ilock", "item_dqlock",
     "item_order", "item_bmap", "item_iunlock", "item_rules", "dqput"}

\* A step in which the scrubber takes an inode lock.
TakesIlock == \E l \in ilock_flags' : l \notin ilock_flags

\* C1: the scrubber never waits for or takes the ILOCK while it holds the
\* dquot lock: it drops the dquot lock, takes ILOCK_SHARED, and only then
\* takes the dquot lock again.
C1_IlockBeforeDqlock ==
    [][/\ pc = "item_ilock" => ~dqlocked
       /\ TakesIlock => ~dqlocked /\ ~dqlocked']_vars

\* The scrubber holds ILOCK_SHARED for a dquot it got from the iterator and
\* has not yet taken the dquot's lock again.
C1_Witness ==
    /\ pc = "item_dqlock"
    /\ dq # NoDq
    /\ "ILOCK_SHARED" \in ilock_flags
    /\ ~dqlocked

\* C2: ILOCK_EXCL, taken by setup, is not held while the iterator is asked
\* for a dquot nor while a dquot is checked.
C2_ExclDroppedBeforeIteration ==
    pc \in IterPcs => "ILOCK_EXCL" \notin ilock_flags

\* The first dquot has been handed over.
C2_Witness ==
    /\ pc = "item"
    /\ pulled = 1
    /\ ip = "quota_inode"
    /\ ilock_flags = {}

\* C3: ILOCK_SHARED is held while the mapping is looked up and checked, and
\* is no longer held when the limit checks run nor when xchk_quota_item() has
\* returned, whether or not the lookup failed.
C3_SharedLockSpansBmap ==
    /\ pc \in {"item_bmap", "item_iunlock"} => "ILOCK_SHARED" \in ilock_flags
    /\ pc \in {"item_rules", "dqput", "iter", "post", "done"}
          => "ILOCK_SHARED" \notin ilock_flags

\* xchk_quota_item() has returned the lookup's error.
C3_Witness ==
    /\ pc = "dqput"
    /\ error = "-EIO"
    /\ lk.error = "-EIO"
    /\ "ILOCK_SHARED" \notin ilock_flags

\* C4 as claimed: once a dquot has produced a corruption finding, the scrub
\* ends as a success.
C4_Claimed ==
    pc = "done" /\ cursor /\ corrupt => ret = "0"

\* C4: once a dquot has produced a corruption finding no further dquot is
\* pulled, and the scrub returns 0 with the corruption flag set, unless the
\* lookup of that dquot's mapping failed: then it returns the lookup's error.
C4_CorruptStopsScan ==
    /\ [](pc = "done" /\ cursor /\ corrupt
            => ret = (IF lk.error = "-EIO" THEN "-EIO" ELSE "0"))
    /\ [][cursor /\ corrupt => pulled' = pulled]_vars

\* The scrub has ended with a corrupt dquot and the iterator could still
\* have yielded dquots.
C4_Witness ==
    /\ pc = "done"
    /\ cursor
    /\ corrupt
    /\ ret = "0"
    /\ pulled < MaxRecords

\* C5: when the fork scrubber or the data fork range check has flagged
\* corruption, the scrub ends there: the dquot cursor is never initialised
\* and no dquot is pulled or checked.
C5_ForkCorruptionEndsScrub ==
    /\ [](pc = "done" /\ ~cursor => pulled = 0 /\ nput = 0)
    /\ [][pc = "fork_ret" /\ corrupt
            => /\ pc' \in {"fork_ret", "done"}
               /\ ~cursor'
               /\ pulled' = 0
               /\ dq' = NoDq]_vars

\* The scrub has ended on an unwritten extent inside the valid id range.
C5_Witness ==
    /\ pc = "done"
    /\ corrupt
    /\ ~cursor
    /\ ret = "0"
    /\ AtLine(finds, 291)
    /\ finds[1].off <= XFS_DQ_ID_MAX \div qi_dqperchunk

\* C6 as claimed: a dquot whose nonzero id is not above a nonzero id seen
\* earlier in the run is reported corrupt, also when a dquot with id 0 came
\* in between.
C6_Claimed ==
    pc = "item_bmap" /\ dq.q_id # 0 /\ dq.q_id <= seen
        => HasKind(finds, "corrupt")

\* The line of xchk_quota_item() that reports soft limit above hard limit.
LimitLine(d) ==
    CASE d = "blk" -> 191
      [] d = "ino" -> 196
      [] d = "rtb" -> 201

\* C7 as claimed: in each domain the limit ordering check reports corruption
\* exactly when the hard limit is nonzero and the soft limit is above it.
C7_Claimed ==
    pc = "dqput" /\ error \in {"0", "-ECANCELED"}
        => \A d \in Domains :
             AtLine(finds, LimitLine(d))
                <=> (usage[d].hardlimit # 0
                     /\ usage[d].softlimit > usage[d].hardlimit)

\* Where the scrub can be once a termination poll has seen the signal, were
\* the scan to end there.
StopPcs == {"fork_ret", "dqput", "post", "done"}

CheckPcs ==
    {"fork_loop", "item_dqunlock", "item_ilock", "item_dqlock", "item_order",
     "item_bmap", "item_iunlock", "item_rules"}

C9_Claimed ==
    pc = "item_iunlock" /\ HasKind(finds, "corrupt") => lk # NoLookup

\* C9: xchk_quota_item_bmap() returns at the first failure of its first three
\* checks, with that one finding: no lookup is made after an offset failure,
\* and the mapping is not checked when the lookup did not return one mapping.
\* Only the three checks of the mapping are all made, each with its finding.
C9_EarlyReturns ==
    pc = "item_iunlock" =>
        /\ AtLine(finds, 93) \/ AtLine(finds, 98)
              => lk = NoLookup /\ Len(finds) = 1
        /\ AtLine(finds, 107) => lk.nmaps # 1 /\ Len(finds) = 1
        /\ lk.error = "0" /\ lk.nmaps = 1 =>
              /\ AtLine(finds, 112) <=> ~xfs_verify_fsbno(lk.irec.br_startblock)
              /\ AtLine(finds, 114)
                    <=> XFS_FSB_TO_DADDR(lk.irec.br_startblock) # dq.q_blkno
              /\ AtLine(finds, 116) <=> ~xfs_bmap_is_written_extent(lk.irec)

\* The dquot's own offset disagreed and xchk_quota_item_bmap() returned.
C9_Witness ==
    /\ pc = "item_iunlock"
    /\ AtLine(finds, 98)
    /\ lk = NoLookup

\* The lookup found no mapping, more than one, a mapping that is not fully
\* written, or one of another block than the dquot's.
ExtentMismatch(d, l) ==
    \/ l.nmaps # 1
    \/ ~xfs_bmap_is_written_extent(l.irec)
    \/ XFS_FSB_TO_DADDR(l.irec.br_startblock) # d.q_blkno

\* C10 as claimed: after a successful lookup the mapping check reports
\* corruption exactly on such a mismatch.
C10_Claimed ==
    pc = "item_iunlock" /\ lk.error = "0"
        => (HasKind(finds, "corrupt") <=> ExtentMismatch(dq, lk))

\* C10: after a successful lookup the mapping check reports corruption
\* exactly on such a mismatch or when the mapping's start block is no valid
\* block of the filesystem.
C10_MappingCorruptIff ==
    pc = "item_iunlock" /\ lk.error = "0"
        => (HasKind(finds, "corrupt")
              <=> \/ ExtentMismatch(dq, lk)
                  \/ lk.nmaps = 1 /\ ~xfs_verify_fsbno(lk.irec.br_startblock))

\* A written mapping of the dquot's block, whose start block lies beyond the
\* end of the filesystem.
C10_Witness ==
    /\ pc = "item_iunlock"
    /\ lk.error = "0"
    /\ lk.nmaps = 1
    /\ ~ExtentMismatch(dq, lk)
    /\ HasKind(finds, "corrupt")
\* The limit, usage and timer checks of xchk_quota_item() have run on the
\* dquot that is about to be released.
RulesRan == pc = "dqput" /\ ~stopped /\ error \in {"0", "-ECANCELED"}

\* The line of xchk_quota_item() that checks the timer of a domain.
TimerLine(d) ==
    CASE d = "blk" -> 249
      [] d = "ino" -> 250
      [] d = "rtb" -> 251

\* Usage above a nonzero soft or hard limit.
OverLimit(r) ==
    \/ (r.softlimit # 0 /\ r.count > r.softlimit)
    \/ (r.hardlimit # 0 /\ r.count > r.hardlimit)

\* C11: for a dquot with a nonzero id and each domain, the timer check
\* reports corruption exactly when "the timer runs" differs from "usage is
\* above a nonzero soft or hard limit", and reports nothing when they agree.
C11_TimerRule ==
    RulesRan /\ dq.q_id # 0
        => \A d \in Domains :
            /\ AtLine(finds, TimerLine(d))
                 <=> ((usage[d].timer # 0) # OverLimit(usage[d]))
            /\ \A i \in 1..Len(finds) :
                 finds[i].line = TimerLine(d) => finds[i].kind = "corrupt"

\* The inode timer of a dquot runs although its inode usage is under both
\* limits, and the timer check has reported it.
C11_Witness ==
    /\ RulesRan /\ dq.q_id # 0
    /\ usage.ino.timer # 0 /\ ~OverLimit(usage.ino)
    /\ AtLine(finds, 250) /\ ~AtLine(finds, 249)

\* Every finding reported from line `l` is of kind `k`.
KindAt(l, k) ==
    \A i \in 1..Len(finds) : finds[i].line = l => finds[i].kind = k

\* C12: for every id, block or realtime block usage above the size of the
\* device is a warning and no corruption on a reflink filesystem and
\* corruption otherwise; an inode usage above the filesystem's inode count is
\* corruption with or without reflink.
C12_Overcommit ==
    RulesRan =>
        /\ AtLine(finds, 213) <=> (has_reflink /\ usage.blk.count > sb_dblocks)
        /\ AtLine(finds, 216) <=> (has_reflink /\ usage.rtb.count > sb_rblocks)
        /\ AtLine(finds, 220) <=> (~has_reflink /\ usage.blk.count > sb_dblocks)
        /\ AtLine(finds, 223) <=> (~has_reflink /\ usage.rtb.count > sb_rblocks)
        /\ AtLine(finds, 227) <=> usage.ino.count > fs_icount
        /\ KindAt(213, "warning") /\ KindAt(216, "warning")
        /\ KindAt(220, "corrupt") /\ KindAt(223, "corrupt")
        /\ KindAt(227, "corrupt")

\* The default dquot of a reflink filesystem uses more blocks than the device
\* has: a warning and no corruption.
C12_Witness ==
    /\ RulesRan /\ dq.q_id = 0 /\ has_reflink
    /\ usage.blk.count > sb_dblocks
    /\ AtLine(finds, 213) /\ ~HasKind(finds, "corrupt")

\* The lines of xchk_quota_item() behind the q_id == 0 exit: usage over the
\* hard limit, and the timers.
OverHardLine(d) ==
    CASE d = "blk" -> 239
      [] d = "ino" -> 243
      [] d = "rtb" -> 247

\* The line that reports a hard limit above what the filesystem can hold,
\* and that capacity.
CapLine(d) ==
    CASE d = "blk" -> 189
      [] d = "ino" -> 194
      [] d = "rtb" -> 199
Capacity(d) ==
    CASE d = "blk" -> sb_dblocks
      [] d = "ino" -> maxicount
      [] d = "rtb" -> sb_rblocks

\* The lines that report usage above what the filesystem physically has,
\* and that amount.
CountLines(d) ==
    CASE d = "blk" -> {213, 220}
      [] d = "ino" -> {227}
      [] d = "rtb" -> {216, 223}
Physical(d) ==
    CASE d = "blk" -> sb_dblocks
      [] d = "ino" -> fs_icount
      [] d = "rtb" -> sb_rblocks

\* C13: for the dquot with id 0 the over-hard-limit and timer checks report
\* nothing in any domain, whatever it holds; the hard limit against capacity,
\* soft against hard limit and usage against the physical amount are checked
\* for it as for every other dquot.
C13_DefaultRecord ==
    RulesRan =>
        /\ dq.q_id = 0 =>
             \A d \in Domains :
                ~AtLine(finds, OverHardLine(d)) /\ ~AtLine(finds, TimerLine(d))
        /\ \A d \in Domains :
            /\ AtLine(finds, CapLine(d)) <=> usage[d].hardlimit > Capacity(d)
            /\ AtLine(finds, LimitLine(d)) <=> SoftOverHard(usage[d])
            /\ (\E l \in CountLines(d) : AtLine(finds, l))
                 <=> usage[d].count > Physical(d)

\* The dquot with id 0 is over its block hard limit with no timer running and
\* over the size of the device: only the last is reported.
C13_Witness ==
    /\ RulesRan /\ dq.q_id = 0
    /\ OverLimit(usage.blk) /\ usage.blk.timer = 0
    /\ usage.blk.hardlimit # 0 /\ usage.blk.count > usage.blk.hardlimit
    /\ \E l \in CountLines("blk") : AtLine(finds, l)
    /\ Len(finds) = 1

\* The dquot about to be released drew warnings and the scrub has found no
\* corruption.
WarningOnly == RulesRan /\ HasKind(finds, "warning") /\ ~corrupt

\* C14: a dquot whose checks report only warnings sets the warning flag and
\* not the corrupt flag, xchk_quota_item() returns 0 for it, and after its
\* release the loop calls the iterator for the next dquot.
C14_WarningContinues ==
    /\ [](WarningOnly => warning /\ ~HasKind(finds, "corrupt") /\ error = "0")
    /\ [][WarningOnly /\ pc' # pc => pc' = "iter" /\ ~corrupt' /\ warning']_vars

\* A second dquot has been pulled after one that drew only a warning.
C14_Witness ==
    pc = "item" /\ pulled = 2 /\ warning /\ ~corrupt /\ error = "1"

\* What the dquot holds draws a warning in domain `d`: a hard limit above
\* capacity, usage over the hard limit of a nonzero id, or block usage above
\* the device on a reflink filesystem.
WarnCond(d) ==
    \/ usage[d].hardlimit > Capacity(d)
    \/ dq.q_id # 0 /\ usage[d].hardlimit # 0
                   /\ usage[d].count > usage[d].hardlimit
    \/ d # "ino" /\ has_reflink /\ usage[d].count > Physical(d)

\* C15: corruption found for a dquot does not keep its other checks from
\* running.  An ordering or mapping finding sets the corrupt flag, which
\* stays set; unless the lookup failed the limit, usage and timer checks are
\* all made; and a dquot out of order, or with a soft limit above the hard
\* limit, that also has a warning condition in some domain leaves both
\* flags set.
C15_AllRulesEvaluated ==
    /\ [][(pc \in {"item_order", "item_bmap"} /\ HasKind(finds', "corrupt"))
             => corrupt']_vars
    /\ [][corrupt => corrupt']_vars
    /\ [][(pc = "item_iunlock" /\ error = "0" /\ pc' # pc)
             => pc' = "item_rules"]_vars
    /\ [](pc = "dqput" /\ lk.error # "-EIO" => RulesRan)
    /\ [](RulesRan =>
            /\ (\E d \in Domains : WarnCond(d)) => warning
            /\ (\E d \in Domains : SoftOverHard(usage[d])) => corrupt
            /\ OrderViolated(dq.q_id, seen) => corrupt)

\* A dquot out of order with the soft limit above the hard limit for blocks
\* and a realtime hard limit above capacity: both flags are set.
C15_Witness ==
    /\ RulesRan /\ OrderViolated(dq.q_id, seen)
    /\ SoftOverHard(usage.blk) /\ ~WarnCond("blk") /\ WarnCond("rtb")
    /\ AtLine(finds, 191) /\ AtLine(finds, 199)
    /\ corrupt /\ warning

\* An extent the quota file must not have: not a plain written extent, or
\* with its first or its last block above the block of the highest id.
OutOfRange(e) ==
    \/ e.br_state # "NORM"
    \/ e.br_startblock \in {HOLESTARTBLOCK, DELAYSTARTBLOCK}
    \/ e.br_startoff > XFS_DQ_ID_MAX \div qi_dqperchunk
    \/ e.br_startoff + e.br_blockcount - 1 > XFS_DQ_ID_MAX \div qi_dqperchunk

\* C16: the data fork check walks the extents in order.  While it is in the
\* loop every extent it has looked at is in range and nothing is reported;
\* when it has returned without being interrupted, either it stopped at an
\* extent out of range, and then it reported corruption once, at that extent's
\* first block, or it went through the whole list and reported nothing.
C16_DataForkRange ==
    /\ pc = "fork_loop" =>
         /\ finds = <<>> /\ ~corrupt
         /\ irec # ZeroIrec => ~OutOfRange(irec)
    /\ pc = "fork_ret" /\ ~stopped =>
         IF irec # ZeroIrec
         THEN /\ OutOfRange(irec)
              /\ finds = <<set_corrupt(irec.br_startoff, 291)>>
              /\ corrupt
         ELSE finds = <<>>

\* The second extent of the quota file starts in range and ends above the
\* block of the highest id: one finding, at its first block.
C16_Witness ==
    /\ pc = "fork_ret" /\ ~stopped /\ nextents = 1
    /\ irec.br_state = "NORM" /\ irec.br_startblock = 0
    /\ irec.br_startoff <= XFS_DQ_ID_MAX \div qi_dqperchunk
    /\ irec.br_startoff + irec.br_blockcount - 1
         > XFS_DQ_ID_MAX \div qi_dqperchunk
    /\ finds = <<set_corrupt(irec.br_startoff, 291)>>

\* C17 as claimed: the inode count is sampled once for the scrub, so every
\* dquot after the first is compared against the count the one before it was
\* compared against, also when the live count has changed in between.
C17_Claimed ==
    [][(pc = "item_rules" /\ pc' = "dqput" /\ fs_icount # -1)
          => fs_icount' = fs_icount]_vars

\* C17: the inode count is sampled once per dquot: each call of
\* xchk_quota_item() reads the live count when it comes to the usage checks
\* and compares that dquot's inode usage against the value just read; no
\* other step of the scrub changes the sample.
C17_SampledPerRecord ==
    /\ [][(pc = "item_rules" /\ pc' = "dqput")
            => /\ fs_icount' = m_icount
               /\ AtLine(finds', 227) <=> usage'.ino.count > m_icount]_vars
    /\ [][pc' # "dqput" \/ pc = "dqput" => fs_icount' = fs_icount]_vars

\* The checks of a second dquot are about to run, and the live inode count is
\* no longer what was read for the first.
C17_Witness ==
    /\ pc = "item_rules" /\ pulled = 2 /\ nput = 1
    /\ fs_icount \in ICountVals /\ m_icount # fs_icount

\* C18: an I/O error of the extent lookup or of the iterator is what the
\* scrub returns.  The failed lookup reports nothing and leaves the flags
\* alone, the dquot's limits, usage and timers are not looked at, the failed
\* iterator call ends the loop, and from the error on no dquot is pulled, no
\* flag changes, and the error stays until it is returned.
C18_IoErrorPropagates ==
    /\ [][(pc = "item_bmap" /\ lk'.error = "-EIO")
            => /\ error' = "-EIO" /\ finds' = <<>>
               /\ corrupt' = corrupt /\ warning' = warning]_vars
    /\ [][(pc = "iter" /\ error' = "-EIO") => pc' = "post"]_vars
    /\ [][(cursor /\ error = "-EIO")
            => /\ error' = "-EIO" /\ pulled' = pulled
               /\ corrupt' = corrupt /\ warning' = warning
               /\ usage' = NoUsage /\ finds' = <<>>]_vars
    /\ [](cursor /\ error = "-EIO"
            => pc \in {"item_iunlock", "dqput", "post", "done"})
    /\ [](cursor /\ error = "-EIO" /\ pc = "done" => ret = "-EIO")

\* The lookup for the second dquot failed and the scrub has returned -EIO.
C18_Witness ==
    /\ pc = "done" /\ ret = "-EIO" /\ lk.error = "-EIO"
    /\ pulled = 2 /\ nput = 2

\* Quota accounting is off, the scrub type is no quota type, or accounting
\* is off for the quota type asked for.
SetupRefused ==
    \/ accounting = {}
    \/ sm_type \notin {"UQUOTA", "GQUOTA", "PQUOTA"}
    \/ sm_type = "UQUOTA" /\ "USER" \notin accounting
    \/ sm_type = "GQUOTA" /\ "GROUP" \notin accounting
    \/ sm_type = "PQUOTA" /\ "PROJ" \notin accounting

\* C19: in each of these three cases setup returns an error and the scrub
\* ends there, with no inode installed, no inode lock taken and nothing
\* reported; a setup that fails holds no lock, and a setup that succeeds
\* returns with the quota inode installed and ILOCK_EXCL held.
C19_SetupFailure ==
    /\ pc # "setup" /\ SetupRefused =>
         /\ pc = "done" /\ ret \in {"-ENOENT", "-EINVAL"}
         /\ ip = "none" /\ ilock_flags = {}
         /\ ~corrupt /\ ~warning /\ finds = <<>>
    /\ ip = "none" => ilock_flags = {} /\ (pc = "done" => ret # "0")
    /\ pc = "quota" => ip = "quota_inode" /\ ilock_flags = {"ILOCK_EXCL"}

\* A user quota scrub on a filesystem with only group quota accounting has
\* been refused.
C19_Witness ==
    /\ pc = "done" /\ sm_type = "UQUOTA" /\ accounting = {"GROUP"}
    /\ ret = "-ENOENT" /\ ip = "none" /\ ilock_flags = {}

\* C20: every dquot the iterator yields is released once, before the
\* iterator is called again and before xchk_quota() returns, on every path;
\* at the release the scrubber holds the dquot's lock and not ILOCK_SHARED,
\* and when the scrub is over it holds neither.
C20_ReleaseDiscipline ==
    /\ pc \in IterPcs \ {"iter"} => dq # NoDq /\ nput = pulled - 1
    /\ pc \notin IterPcs \ {"iter"} =>
         dq = NoDq /\ ~dqlocked /\ nput = pulled
    /\ pc = "dqput" => dqlocked /\ "ILOCK_SHARED" \notin ilock_flags
    /\ pc \in {"post", "done"} => "ILOCK_SHARED" \notin ilock_flags

\* The scan was interrupted at its second dquot: two dquots were pulled and
\* two released, and the scrub has returned without the locks.
C20_Witness ==
    /\ pc = "done" /\ stopped /\ pulled = 2 /\ nput = 2
    /\ dq = NoDq /\ ~dqlocked /\ "ILOCK_SHARED" \notin ilock_flags

====
